---- MODULE Spec2Model ----
(***************************************************************************)
(* A model of goodreads_grapher/grapher.py: the top-level driver `main`,   *)
(* the two per-entity pipelines `graph_series` and `graph_author`          *)
(* (identifier extraction, paginated retrieval, normalisation, filtering), *)
(* the four chart functions that slice/sort the data frame, and the two    *)
(* console prompts (new cut off, more urls).                               *)
(*                                                                         *)
(* Strings are sequences of one-character strings, so that int(), split()  *)
(* and the regular expressions are computed and not assumed.  A float is   *)
(* the exact fraction <<numerator, denominator>>; 0/0 is NaN and n/0 is    *)
(* +inf, as numpy division gives them.                                     *)
(***************************************************************************)
EXTENDS Integers, Sequences, FiniteSets, TLC

VARIABLES
    args,         \* argparse.Namespace returned by parse_args()
    catalog,      \* what the remote service holds: total and the pages
    pc,           \* position of the single thread of control
    err,          \* the exception that ended the process, "" while none
    batch,        \* args.urls not yet reached by the outer `for url`
    more,         \* urls of the prompted line not yet reached by the inner `for`
    inMore,       \* TRUE while inside the `while True` more-urls loop
    url,          \* the url passed to graph_series / graph_author
    entity_id,    \* series_id / author_id
    total,        \* total read from the first response
    pages,        \* the page count the code computes
    page,         \* next p of the page comprehension
    fetched,      \* series_work / author_books accumulated so far
    requests,     \* gc.request calls of the current entity, in order
    kept,         \* filtered_author_books (author) / series_books (series)
    df,           \* series_df / author_books_df
    cut_off,      \* the local cut_off of graph_series / graph_author
    renders,      \* plt.show() calls of the current entity, in order
    cutoffLines,  \* lines read at the "New cut off number" prompt, this entity
    nPrompts,     \* lines read at the "more urls" prompt so far
    nEntities,    \* calls of graph_series / graph_author so far
    carried       \* TRUE once some entity's loop assigned cut_off a value
                  \* different from args.cut_off

vars == <<args, catalog, pc, err, batch, more, inMore, url, entity_id, total,
          pages, page, fetched, requests, kept, df, cut_off, renders,
          cutoffLines, nPrompts, nEntities, carried>>

----------------------------------------------------------------------------
(* Bounds of the model *)

MaxUrls == 2           \* most urls given together (command line, or one line)
MaxRows == 3           \* most entries the service holds for one entity (data scenarios)
MaxFullPages == 1      \* totals range up to MaxFullPages full pages plus one entry
MaxCutoffInputs == 1   \* most non-cancelling lines typed at one entity's cutoff prompt
MaxUrlPrompts == 1     \* most non-empty lines typed at the more-urls prompt

(* Program constants *)

DEFAULT_AUTHOR_BOOKS_PER_PAGE == 30
DEFAULT_SERIES_BOOKS_PER_PAGE == 100

----------------------------------------------------------------------------
(* Text: characters, int(), str.split, str.replace *)

Digits == {"0", "1", "2", "3", "4", "5", "6", "7", "8", "9"}

DigitVal(c) ==
    CASE c = "0" -> 0 [] c = "1" -> 1 [] c = "2" -> 2 [] c = "3" -> 3
      [] c = "4" -> 4 [] c = "5" -> 5 [] c = "6" -> 6 [] c = "7" -> 7
      [] c = "8" -> 8 [] c = "9" -> 9

AllDigits(s) == Len(s) >= 1 /\ \A i \in 1..Len(s) : s[i] \in Digits

RECURSIVE DigitsToNat(_)
DigitsToNat(s) ==
    IF s = <<>> THEN 0
    ELSE 10 * DigitsToNat(SubSeq(s, 1, Len(s) - 1)) + DigitVal(s[Len(s)])

\* int(s) for a str s: [ok |-> FALSE] stands for ValueError.
PyInt(s) ==
    LET signed == Len(s) >= 1 /\ s[1] \in {"-", "+"}
        body   == IF signed THEN Tail(s) ELSE s
    IN  IF AllDigits(body)
        THEN [ok |-> TRUE,
              val |-> IF signed /\ s[1] = "-" THEN 0 - DigitsToNat(body)
                      ELSE DigitsToNat(body)]
        ELSE [ok |-> FALSE, val |-> 0]

\* float(s) for a decimal literal "d+.d+" or "d+": the exact fraction.
RECURSIVE Pow10(_)
Pow10(n) == IF n = 0 THEN 1 ELSE 10 * Pow10(n - 1)

PyFloat(s) ==
    LET dots == {i \in 1..Len(s) : s[i] = "."}
        dot  == IF dots = {} THEN Len(s) + 1 ELSE CHOOSE i \in dots : TRUE
        ip   == SubSeq(s, 1, dot - 1)
        fp   == SubSeq(s, dot + 1, Len(s))
    IN  <<DigitsToNat(ip \o fp), Pow10(Len(fp))>>

\* s.replace(prefix, "") where the prefix is held as one element of s.
Replace(s, prefix) == SelectSeq(s, LAMBDA c : c # prefix)

\* s.split(" "): every separator splits, so "a  b" has an empty middle part.
RECURSIVE Split(_)
Split(s) ==
    LET sp == {i \in 1..Len(s) : s[i] = " "}
    IN  IF sp = {} THEN <<s>>
        ELSE LET i == CHOOSE k \in sp : \A j \in sp : k <= j
             IN  <<SubSeq(s, 1, i - 1)>> \o Split(SubSeq(s, i + 1, Len(s)))

----------------------------------------------------------------------------
(* Identifier extraction *)

SeriesPrefix == "https://www.goodreads.com/series/"
AuthorPrefix == "https://www.goodreads.com/author/"

\* Last index of the run of digits that starts at i.
DigitRunEnd(s, i) ==
    CHOOSE e \in i..Len(s) :
        /\ \A k \in i..e : s[k] \in Digits
        /\ (e = Len(s) \/ s[e + 1] \notin Digits)

\* re.search(r"(\d+)-.*", raw): the leftmost digit run that a hyphen follows.
\* [ok |-> FALSE] stands for the AttributeError of None.group(1).
series_url_to_series_id(u) ==
    LET raw    == Replace(u, SeriesPrefix)
        starts == {i \in 1..Len(raw) :
                      /\ raw[i] \in Digits
                      /\ DigitRunEnd(raw, i) < Len(raw)
                      /\ raw[DigitRunEnd(raw, i) + 1] = "-"}
        first  == CHOOSE i \in starts : \A j \in starts : i <= j
    IN  IF starts = {} THEN [ok |-> FALSE, val |-> 0]
        ELSE [ok |-> TRUE,
              val |-> DigitsToNat(SubSeq(raw, first, DigitRunEnd(raw, first)))]

ShowSlash == <<"s", "h", "o", "w", "/">>

\* re.search(r".*show\/(\d+)\..*", raw): the greedy .* takes the last "show/"
\* that a digit run and a dot follow.
author_url_to_author_id(u) ==
    LET raw    == Replace(u, AuthorPrefix)
        starts == {i \in 1..Len(raw) :
                      /\ i + 5 <= Len(raw)
                      /\ SubSeq(raw, i, i + 4) = ShowSlash
                      /\ raw[i + 5] \in Digits
                      /\ DigitRunEnd(raw, i + 5) < Len(raw)
                      /\ raw[DigitRunEnd(raw, i + 5) + 1] = "."}
        last   == CHOOSE i \in starts : \A j \in starts : j <= i
    IN  IF starts = {} THEN [ok |-> FALSE, val |-> 0]
        ELSE [ok |-> TRUE,
              val |-> DigitsToNat(SubSeq(raw, last + 5, DigitRunEnd(raw, last + 5)))]

----------------------------------------------------------------------------
(* Pagination arithmetic *)

\* math.ceil(a / b) for a >= 0, b > 0
Ceil(a, b) == IF a % b = 0 THEN a \div b ELSE (a \div b) + 1

PageCount_noExtra(t, perPage) == Ceil(t, perPage)

\* math.ceil(int(total) / PER_PAGE) + 1
PageCount(t, perPage) == Ceil(t, perPage) + 1

\* list(range(a, b))
RECURSIVE Range(_, _)
Range(a, b) == IF a >= b THEN <<>> ELSE <<a>> \o Range(a + 1, b)

PerPage(series) ==
    IF series THEN DEFAULT_SERIES_BOOKS_PER_PAGE ELSE DEFAULT_AUTHOR_BOOKS_PER_PAGE

\* The list the service returns for page p of the entity.
ServicePage(c, p) == IF p \in 1..Len(c.pages) THEN c.pages[p] ELSE <<>>

----------------------------------------------------------------------------
(* Normalisation and filtering *)

\* {**work["work"], **work["work"]["best_book"], "user_position": ...} and the
\* later del of "best_book"; astype(int) of the two rating columns.
SeriesBook(w) ==
    [title         |-> w.work.best_book.title,
     ratings_sum   |-> PyInt(w.work.ratings_sum).val,
     ratings_count |-> PyInt(w.work.ratings_count).val,
     user_position |-> w.user_position]

\* GoodreadsBook({**book, "id": int(book["id"]["#text"])}, gc)
AuthorBook(b) ==
    [id                   |-> PyInt(b.id.text).val,
     title_without_series |-> b.title_without_series,
     authors              |-> b.authors,
     ratings_count        |-> b.ratings_count,
     average_rating       |-> b.average_rating]

\* series_books = [{...} for work in series_work]
series_books(series_work) ==
    [i \in 1..Len(series_work) |-> SeriesBook(series_work[i])]

\* author_books_for_page: [GoodreadsBook(...) for book in (...)]
author_books_for_page(got) == [i \in 1..Len(got) |-> AuthorBook(got[i])]

PassesFilter_atLeast(book, author_id, min_num_ratings) ==
    /\ \E k \in 1..Len(book.authors) : book.authors[k] = author_id
    /\ book.ratings_count >= min_num_ratings

\* int(author_id) in [atr.gid for atr in book.authors]
\*   and book.ratings_count > min_num_ratings
PassesFilter(book, author_id, min_num_ratings) ==
    /\ \E k \in 1..Len(book.authors) : book.authors[k] = author_id
    /\ book.ratings_count > min_num_ratings

filtered_author_books(author_books, author_id, min_num_ratings) ==
    SelectSeq(author_books, LAMBDA b : PassesFilter(b, author_id, min_num_ratings))

\* pd.DataFrame(series_books) with
\* average_rating = ratings_sum / ratings_count (element-wise float division)
series_df(sb) ==
    [i \in 1..Len(sb) |->
        [idx            |-> i - 1,
         title          |-> sb[i].title,
         ratings_sum    |-> sb[i].ratings_sum,
         ratings_count  |-> sb[i].ratings_count,
         average_rating |-> <<sb[i].ratings_sum,
                              sb[i].ratings_count>>]]

\* pd.DataFrame([book._book_dict ...]) with average_rating.astype(float)
author_books_df(books) ==
    [i \in 1..Len(books) |->
        [idx                  |-> i - 1,
         title_without_series |-> books[i].title_without_series,
         ratings_count        |-> books[i].ratings_count,
         average_rating       |-> PyFloat(books[i].average_rating)]]

----------------------------------------------------------------------------
(* Slicing and sorting of a data frame *)

Min(a, b) == IF a <= b THEN a ELSE b
Max(a, b) == IF a >= b THEN a ELSE b

PySlice_offByOne(s, c) ==
    IF c >= 0 THEN SubSeq(s, 1, Min(c + 1, Len(s)))
    ELSE SubSeq(s, 1, Max(Len(s) + c, 0))

\* s[:c]: the first c rows for c >= 0; all but the last -c rows for c < 0.
PySlice(s, c) ==
    IF c >= 0 THEN SubSeq(s, 1, Min(c, Len(s)))
    ELSE SubSeq(s, 1, Max(Len(s) + c, 0))

IsNaN(f) == f[1] = 0 /\ f[2] = 0
IsInf(f) == f[1] > 0 /\ f[2] = 0

\* a > b for floats that are not NaN
FGt(a, b) ==
    IF IsInf(a) THEN ~IsInf(b)
    ELSE IF IsInf(b) THEN FALSE
    ELSE a[1] * b[2] > b[1] * a[2]

FEq(a, b) == ~IsNaN(a) /\ ~IsNaN(b) /\ ~FGt(a, b) /\ ~FGt(b, a)

\* x must come before y in a descending sort with na_position="last"
MustPrecede(x, y) ==
    \/ ~IsNaN(x.average_rating) /\ IsNaN(y.average_rating)
    \/ /\ ~IsNaN(x.average_rating) /\ ~IsNaN(y.average_rating)
       /\ FGt(x.average_rating, y.average_rating)

\* rows.sort_values(["average_rating"], ascending=False): kind defaults to
\* "quicksort", which is not stable, so every order of the rows that is
\* descending in average_rating is a possible result.
sort_values(rows) ==
    LET n  == Len(rows)
        ok == {f \in Permutations(1..n) :
                  \A i, j \in 1..n : i < j => ~MustPrecede(rows[f[j]], rows[f[i]])}
    IN  {[i \in 1..n |-> rows[f[i]]] : f \in ok}

\* frame[[x, "average_rating"]]: the two plotted columns (and the index)
Columns(rows, x) ==
    [i \in 1..Len(rows) |->
        [idx |-> rows[i].idx, label |-> rows[i][x],
         average_rating |-> rows[i].average_rating]]

\* Each chart function gives the set of frames plot()/plt.show() may be handed.
graph_avg_rating_by_series_order(frame, c) ==
    {PySlice(Columns(frame, "title"), c)}

graph_series_sort_by_average_rating(frame, c) ==
    {Columns(s, "title") : s \in sort_values(PySlice(frame, c))}

graph_avg_rating_by_popularity(frame, c) ==
    {PySlice(Columns(frame, "title_without_series"), c)}

graph_author_sort_by_average_rating(frame, c) ==
    {Columns(s, "title_without_series") : s \in sort_values(PySlice(frame, c))}

Chart(series, sort_by_rating, frame, c) ==
    IF series
    THEN IF sort_by_rating THEN graph_series_sort_by_average_rating(frame, c)
         ELSE graph_avg_rating_by_series_order(frame, c)
    ELSE IF sort_by_rating THEN graph_author_sort_by_average_rating(frame, c)
         ELSE graph_avg_rating_by_popularity(frame, c)

----------------------------------------------------------------------------
(* Inputs: urls, service entries, console lines, command lines *)

GoodSeriesUrl == <<SeriesPrefix, "4", "0", "-", "b">>
BadSeriesUrl  == <<SeriesPrefix, "b">>
GoodAuthorUrl == <<AuthorPrefix, "s", "h", "o", "w", "/", "7", ".", "f">>
BadAuthorUrl  == <<AuthorPrefix, "7", ".", "f">>

UrlPool(series) ==
    IF series THEN {GoodSeriesUrl, BadSeriesUrl} ELSE {GoodAuthorUrl, BadAuthorUrl}

\* One series_work entry of a series/show response.
Work(t, sum, count) ==
    [work |-> [ratings_sum |-> sum, ratings_count |-> count,
               best_book |-> [title |-> t]],
     user_position |-> <<"1">>]

WorkA == Work("A", <<"7">>, <<"2">>)     \* 3.5
WorkB == Work("B", <<"8">>, <<"2">>)     \* 4.0
WorkZ == Work("Z", <<"0">>, <<"0">>)     \* no ratings yet
WorkPool == {WorkA, WorkB, WorkZ}

\* One book entry of an author/list response.
Book(t, i, as, count, avg) ==
    [id |-> [text |-> i], title_without_series |-> t, authors |-> as,
     ratings_count |-> count, average_rating |-> avg]

BookA == Book("A", <<"1", "1">>, <<7>>, 1, <<"3", ".", "5", "0">>)
BookB == Book("B", <<"1", "2">>, <<9, 7>>, 2, <<"4", ".", "0", "0">>)
BookX == Book("X", <<"1", "3">>, <<9>>, 5, <<"4", ".", "5">>)
BookPool == {BookA, BookB, BookX}

EntryPool(series) == IF series THEN WorkPool ELSE BookPool

SeqsUpTo(S, n) == UNION {[1..k -> S] : k \in 0..n}

\* The totals a first response may announce: around every page boundary.
Totals(series) ==
    {0} \cup UNION {{k * PerPage(series), k * PerPage(series) + 1} :
                       k \in 0..MaxFullPages}

SamplePage(series) ==
    IF series THEN <<WorkA, WorkB, WorkB>> ELSE <<BookA, BookB, BookB>>

ShortPage(series) == IF series THEN <<WorkA, WorkB>> ELSE <<BookA, BookB>>

\* Lines typed at "New cut off number (Enter to cancel):"
CutoffLinePool == {<<>>, <<"0">>, <<"1", "0">>, <<"-", "1">>, <<"a">>}

RECURSIVE JoinSpace(_)
JoinSpace(us) ==
    IF Len(us) = 1 THEN us[1] ELSE us[1] \o <<" ">> \o JoinSpace(Tail(us))

\* Lines typed at "Enter some more urls separated by spaces (Enter to cancel): "
UrlLinePool(series) ==
    {<<>>} \cup {JoinSpace(us) : us \in SeqsUpTo(UrlPool(series), MaxUrls) \ {<<>>}}

Namespace(series, c, pnc, pmu, sbr, mnr, us) ==
    [series |-> series, author |-> ~series, cut_off |-> c,
     prompt_new_cutoff |-> pnc, prompt_more_urls |-> pmu,
     sort_by_rating |-> sbr, min_num_ratings |-> mnr, urls |-> us]

\* --min-num-ratings: series mode never reads it, so it stays at its default.
MinRatingsPool(series) == IF series THEN {1} ELSE {0, 1}

\* Command lines that exercise the driver: any flags, any batch of urls, over
\* one fixed catalog entry list.
DriverScenarios(s) ==
    {[args    |-> Namespace(s, c, pnc, pmu, sbr, 1, us),
      catalog |-> [total |-> 3, pages |-> <<SamplePage(s)>>]] :
        c \in {-1, 0, 2}, pnc \in BOOLEAN, pmu \in BOOLEAN, sbr \in BOOLEAN,
        us \in SeqsUpTo(UrlPool(s), MaxUrls) \ {<<>>}}

\* Command lines that exercise the data path: one url, every entry list.
DataScenarios(s) ==
    {[args    |-> Namespace(s, c, FALSE, FALSE, sbr, mnr, <<u>>),
      catalog |-> [total |-> Len(es), pages |-> <<es>>]] :
        c \in -2..MaxRows, sbr \in BOOLEAN, mnr \in MinRatingsPool(s),
        u \in UrlPool(s) \ {BadSeriesUrl, BadAuthorUrl},
        es \in SeqsUpTo(EntryPool(s), MaxRows)}

\* Command lines that exercise the pagination: one url, every total, the
\* service answering each page of the listing with a short list.
PagingScenarios(s) ==
    {[args    |-> Namespace(s, -1, FALSE, FALSE, sbr, 1, <<u>>),
      catalog |-> [total |-> t,
                   pages |-> [p \in 1..Ceil(t, PerPage(s)) |-> ShortPage(s)]]] :
        sbr \in BOOLEAN, u \in UrlPool(s) \ {BadSeriesUrl, BadAuthorUrl},
        t \in Totals(s)}

Scenarios ==
    UNION {DriverScenarios(s) \cup DataScenarios(s) \cup PagingScenarios(s) :
              s \in BOOLEAN}

----------------------------------------------------------------------------
(* The program *)

NoPage == 0     \* a request whose params carry no "page" key

Init ==
    \E sc \in Scenarios :
        /\ args = sc.args
        /\ catalog = sc.catalog
        /\ pc = "call"
        /\ err = ""
        /\ batch = sc.args.urls
        /\ more = <<>>
        /\ inMore = FALSE
        /\ url = <<>>
        /\ entity_id = 0
        /\ total = 0
        /\ pages = 0
        /\ page = 0
        /\ fetched = <<>>
        /\ requests = <<>>
        /\ kept = <<>>
        /\ df = <<>>
        /\ cut_off = sc.args.cut_off
        /\ renders = <<>>
        /\ cutoffLines = <<>>
        /\ nPrompts = 0
        /\ nEntities = 0
        /\ carried = FALSE

\* An uncaught exception: the traceback is printed and the process exits.
Crash(e) == pc' = "crashed" /\ err' = e

CallCutOff_carry == cut_off

\* The cut_off argument main passes to graph_series / graph_author.
CallCutOff == args.cut_off

\* Where main goes on once graph_series / graph_author has returned.
AfterGraph ==
    IF inMore
    THEN IF more # <<>> THEN "call" ELSE "prompt_urls"
    ELSE IF args.series
         THEN IF args.prompt_more_urls THEN "prompt_urls"
              ELSE IF batch # <<>> THEN "call" ELSE "done"
         ELSE IF batch # <<>> THEN "call"
              ELSE IF args.prompt_more_urls THEN "prompt_urls" ELSE "done"

\* main calls graph_series(gc, url, args.cut_off, ...) or graph_author(...) for
\* the next url; the callee first extracts the id from the url.
GraphCall ==
    /\ pc = "call"
    /\ LET u  == IF inMore THEN Head(more) ELSE Head(batch)
           id == IF args.series THEN series_url_to_series_id(u)
                 ELSE author_url_to_author_id(u)
       IN  /\ url' = u
           /\ IF inMore THEN more' = Tail(more) /\ batch' = batch
              ELSE batch' = Tail(batch) /\ more' = more
           /\ entity_id' = id.val
           /\ IF id.ok THEN pc' = "first_request" /\ err' = err
              ELSE Crash("AttributeError")
    /\ cut_off' = CallCutOff
    /\ nEntities' = nEntities + 1
    /\ total' = 0 /\ pages' = 0 /\ page' = 0
    /\ fetched' = <<>> /\ requests' = <<>> /\ kept' = <<>> /\ df' = <<>>
    /\ renders' = <<>> /\ cutoffLines' = <<>>
    /\ UNCHANGED <<args, catalog, inMore, nPrompts, carried>>

\* The end of retrieval: series_books and series_df, or filtered_author_books
\* and author_books_df.  Reading a column of a frame built from an empty list
\* raises AttributeError.
BuildFrame(entries) ==
    LET books == IF args.series THEN series_books(entries)
                 ELSE filtered_author_books(entries, entity_id,
                                            args.min_num_ratings)
        frame == IF args.series THEN series_df(books) ELSE author_books_df(books)
    IN  /\ kept' = books
        /\ df' = frame
        /\ IF frame = <<>> THEN Crash("AttributeError")
           ELSE pc' = "render" /\ err' = err

\* graph_series: gc.request("series/show", {"id": series_id, "page": 1}), the
\* total and the page count.  graph_author: author_books_total_pages, whose
\* request carries no page.
FirstRequest ==
    /\ pc = "first_request"
    /\ requests' = Append(requests,
           IF args.series
           THEN [endpoint |-> "series/show", id |-> entity_id, page |-> 1]
           ELSE [endpoint |-> "author/list", id |-> entity_id, page |-> NoPage])
    /\ \/ /\ Crash("RequestError")
          /\ UNCHANGED <<total, pages, page, fetched, kept, df>>
       \/ LET t     == catalog.total
              n     == PageCount(t, PerPage(args.series))
              first == IF args.series THEN ServicePage(catalog, 1) ELSE <<>>
              start == IF args.series THEN 2 ELSE 1
              todo  == IF args.series
                       THEN IF n > 1 THEN Range(2, n) ELSE <<>>
                       ELSE Range(1, n)
          IN  /\ total' = t
              /\ pages' = n
              /\ page' = start
              /\ fetched' = first
              /\ IF todo = <<>> THEN BuildFrame(first)
                 ELSE pc' = "fetch" /\ err' = err /\ UNCHANGED <<kept, df>>
    /\ UNCHANGED <<args, catalog, batch, more, inMore, url, entity_id, cut_off,
                   renders, cutoffLines, nPrompts, nEntities, carried>>

\* One element of the page comprehension: the request for page p, for p in
\* range(2, pages) (series) or range(1, pages) (author_books_for_page).
FetchPage ==
    /\ pc = "fetch"
    /\ requests' = Append(requests,
           [endpoint |-> IF args.series THEN "series/show" ELSE "author/list",
            id |-> entity_id, page |-> page])
    /\ \/ /\ Crash("RequestError")
          /\ UNCHANGED <<page, fetched, kept, df>>
       \/ LET got == ServicePage(catalog, page)
              all == fetched \o (IF args.series THEN got ELSE author_books_for_page(got))
          IN  /\ fetched' = all
              /\ page' = page + 1
              /\ IF page + 1 >= pages THEN BuildFrame(all)
                 ELSE pc' = "fetch" /\ err' = err /\ UNCHANGED <<kept, df>>
    /\ UNCHANGED <<args, catalog, batch, more, inMore, url, entity_id, total,
                   pages, cut_off, renders, cutoffLines, nPrompts, nEntities,
                   carried>>

\* The body of `while True` up to plt.show(): one of the four chart functions.
Render ==
    /\ pc = "render"
    /\ \E rows \in Chart(args.series, args.sort_by_rating, df, cut_off) :
           renders' = Append(renders, [cut_off |-> cut_off, rows |-> rows])
    /\ pc' = IF args.prompt_new_cutoff THEN "await_cutoff" ELSE AfterGraph
    /\ UNCHANGED <<args, catalog, err, batch, more, inMore, url, entity_id, total,
                   pages, page, fetched, requests, kept, df, cut_off,
                   cutoffLines, nPrompts, nEntities, carried>>

\* int(input(...) or 0): the empty line is falsy and gives 0.
input_or_0(line) == IF line = <<>> THEN [ok |-> TRUE, val |-> 0] ELSE PyInt(line)

Cancels_nonPositive(new_cut_off) == new_cut_off <= 0

\* if NEW_CUT_OFF == 0: break
Cancels(new_cut_off) == new_cut_off = 0

\* The lines the console may deliver at the cutoff prompt: once the entity has
\* been given MaxCutoffInputs new cutoffs, only lines that are not one.
OfferedCutoffLines ==
    IF Len(cutoffLines) < MaxCutoffInputs THEN CutoffLinePool
    ELSE {l \in CutoffLinePool : ~input_or_0(l).ok \/ input_or_0(l).val = 0}

\* if prompt_new_cutoff: NEW_CUT_OFF = int(input(...) or 0) ...
AwaitCutoff ==
    /\ pc = "await_cutoff"
    /\ \E line \in OfferedCutoffLines :
           LET v == input_or_0(line)
           IN  /\ cutoffLines' = Append(cutoffLines, line)
               /\ IF ~v.ok
                  THEN Crash("ValueError") /\ UNCHANGED <<cut_off, carried>>
                  ELSE IF Cancels(v.val)
                  THEN pc' = AfterGraph /\ UNCHANGED <<err, cut_off, carried>>
                  ELSE /\ cut_off' = v.val
                       /\ carried' = (carried \/ v.val # args.cut_off)
                       /\ pc' = "render"
                       /\ err' = err
    /\ UNCHANGED <<args, catalog, batch, more, inMore, url, entity_id, total,
                   pages, page, fetched, requests, kept, df, renders, nPrompts,
                   nEntities>>

OfferedUrlLines ==
    IF nPrompts < MaxUrlPrompts THEN UrlLinePool(args.series) ELSE {<<>>}

\* raw_urls = input("Enter some more urls ..."): a non-empty line is split and
\* its urls graphed; the empty line breaks out of the `while True`.
PromptUrls ==
    /\ pc = "prompt_urls"
    /\ \E line \in OfferedUrlLines :
           IF line # <<>>
           THEN /\ more' = Split(line)
                /\ inMore' = TRUE
                /\ nPrompts' = nPrompts + 1
                /\ pc' = "call"
           ELSE /\ more' = <<>>
                /\ inMore' = FALSE
                /\ nPrompts' = nPrompts
                /\ pc' = IF args.series /\ batch # <<>> THEN "call" ELSE "done"
    /\ UNCHANGED <<args, catalog, err, batch, url, entity_id, total, pages, page,
                   fetched, requests, kept, df, cut_off, renders, cutoffLines,
                   nEntities, carried>>

Next ==
    \/ GraphCall
    \/ FirstRequest
    \/ FetchPage
    \/ Render
    \/ AwaitCutoff
    \/ PromptUrls

Spec == Init /\ [][Next]_vars

----------------------------------------------------------------------------
(* Vocabulary of the properties *)

Last(s) == s[Len(s)]

\* The current entity's retrieval has ended and its frame has been built.
RetrievalDone ==
    /\ pc \notin {"first_request", "fetch"}
    /\ err # "RequestError"
    /\ requests # <<>>

\* The least n with n * per >= t, i.e. ceil(t / per).
CeilOf(t, per) == CHOOSE n \in 0..t : n * per >= t /\ (n = 0 \/ (n - 1) * per < t)

\* The page numbers of the requests that carry one, in request order.
PageNumbers ==
    LET withPage == SelectSeq(requests, LAMBDA r : r.page # NoPage)
    IN  [i \in 1..Len(withPage) |-> withPage[i].page]

\* Descending in average_rating, undefined averages last.
Descending(rows) ==
    \A i, j \in 1..Len(rows) : i < j => ~MustPrecede(rows[j], rows[i])

\* The 0-based frame indices a render shows.
Shown(r) == {r.rows[i].idx : i \in 1..Len(r.rows)}

\* Every row of the render is a row of the current frame.
FromFrame(r) ==
    \A i \in 1..Len(r.rows) :
        /\ r.rows[i].idx \in 0..(Len(df) - 1)
        /\ r.rows[i].average_rating = df[r.rows[i].idx + 1].average_rating

----------------------------------------------------------------------------
(* C1: with a negative cutoff (the default -1 included) every chart is      *)
(* handed all records of the frame.                                         *)
C1_NegativeCutoffKeepsAll ==
    \A k \in 1..Len(renders) :
        renders[k].cut_off < 0 => Len(renders[k].rows) = Len(df)

(* C2, as stated: sorted by rating with cutoff c >= 0, the chart shows the  *)
(* c highest-rated records of the whole frame: no record left out is rated  *)
(* above a record shown.                                                    *)
C2_HighestRatedOfAll ==
    args.sort_by_rating =>
        \A k \in 1..Len(renders) :
            renders[k].cut_off >= 0 =>
                /\ Len(renders[k].rows) = Min(renders[k].cut_off, Len(df))
                /\ Descending(renders[k].rows)
                /\ \A d \in 1..Len(df) : \A i \in 1..Len(renders[k].rows) :
                       (df[d].idx \notin Shown(renders[k]))
                           => ~MustPrecede(df[d], renders[k].rows[i])

(* C2, amended: sorted by rating with cutoff c >= 0, the chart shows the    *)
(* first c records of the frame in the service's order (all of them when    *)
(* there are fewer), rearranged to be descending in average rating.         *)
C2_FirstRowsThenSorted ==
    args.sort_by_rating =>
        \A k \in 1..Len(renders) :
            renders[k].cut_off >= 0 =>
                /\ Len(renders[k].rows) = Min(renders[k].cut_off, Len(df))
                /\ Shown(renders[k]) = 0..(Min(renders[k].cut_off, Len(df)) - 1)
                /\ FromFrame(renders[k])
                /\ Descending(renders[k].rows)

\* A sorted chart that shows the first two records although the third is
\* rated above one of them.
C2_Witness ==
    /\ args.sort_by_rating
    /\ \E k \in 1..Len(renders) :
           /\ renders[k].cut_off = 2
           /\ Len(df) = 3
           /\ Shown(renders[k]) = {0, 1}
           /\ renders[k].rows[1].idx = 1
           /\ \E i \in 1..2 : MustPrecede(df[3], renders[k].rows[i])

(* C3: in series mode no record without ratings is in the frame that is     *)
(* ranked, and none is handed to a chart.                                   *)
C3_ZeroRatingsExcluded ==
    args.series =>
        /\ \A i \in 1..Len(df) : df[i].ratings_count # 0
        /\ \A k \in 1..Len(renders) : \A i \in 1..Len(renders[k].rows) :
               ~IsNaN(renders[k].rows[i].average_rating)

(* C4, as stated: for a total T > 0 the page count is ceil(T/P) + 1 and     *)
(* page ceil(T/P) + 1 is requested besides the pages 1..ceil(T/P).          *)
C4_ExtraPageRequested ==
    (RetrievalDone /\ total > 0) =>
        /\ pages = CeilOf(total, PerPage(args.series)) + 1
        /\ \E i \in 1..Len(requests) :
               requests[i].page = CeilOf(total, PerPage(args.series)) + 1

(* C4, amended: for a total T > 0 the page count is ceil(T/P) + 1, used as  *)
(* an exclusive upper bound: the pages requested are exactly 1..ceil(T/P),  *)
(* in order and once each; page ceil(T/P) + 1 is never requested.  Author   *)
(* mode makes one request more, the first, which carries no page number.    *)
C4_PagesRequested ==
    (RetrievalDone /\ total > 0) =>
        /\ pages = CeilOf(total, PerPage(args.series)) + 1
        /\ PageNumbers = [i \in 1..CeilOf(total, PerPage(args.series)) |-> i]
        /\ \A i \in 1..Len(requests) :
               requests[i].page = NoPage <=> (~args.series /\ i = 1)

\* A retrieval of more than one page that ended well.
C4_Witness ==
    /\ RetrievalDone
    /\ total > PerPage(args.series)
    /\ pc = "render"
    /\ pages = 3
    /\ Len(PageNumbers) = 2

(* C5: with --prompt-new-cutoff and integer (or empty) lines, the entity is *)
(* charted once with the initial cutoff and once more for every non-zero    *)
(* line, with that line's value as cutoff and over the same frame; the      *)
(* first empty or zero line ends the loop without another chart.            *)
C5_CutoffLoop ==
    LET n      == Len(cutoffLines)
        val(i) == input_or_0(cutoffLines[i]).val
        inLoop == pc \in {"render", "await_cutoff"}
    IN  (/\ args.prompt_new_cutoff
         /\ inLoop \/ renders # <<>>
         /\ \A i \in 1..n : input_or_0(cutoffLines[i]).ok) =>
            /\ \A i \in 1..(n - 1) : val(i) # 0
            /\ (n >= 1 /\ val(n) = 0) <=> (~inLoop /\ err = "")
            /\ Len(renders) =
                   IF pc = "render" \/ (n >= 1 /\ val(n) = 0) THEN n ELSE n + 1
            /\ \A k \in 1..Len(renders) :
                   /\ renders[k].cut_off = IF k = 1 THEN args.cut_off ELSE val(k - 1)
                   /\ FromFrame(renders[k])

\* The lines "10" and "0": two charts, the second with cutoff 10, then Done.
C5_Witness ==
    /\ args.prompt_new_cutoff
    /\ cutoffLines = <<<<"1", "0">>, <<"0">>>>
    /\ Len(renders) = 2
    /\ renders[2].cut_off = 10
    /\ pc \in {"call", "prompt_urls", "done"}

(* C6: a line at the cutoff prompt that is not an integer cancels the loop; *)
(* it never ends the process with an error.                                 *)
C6_NonIntegerCancels ==
    (cutoffLines # <<>> /\ ~input_or_0(Last(cutoffLines)).ok) =>
        (pc # "crashed" /\ err = "")

(* C7: a fatal error while one url is processed leaves no later url of the  *)
(* batch unattempted.                                                       *)
C7_BatchContinues ==
    pc = "crashed" => (batch = <<>> /\ more = <<>>)

C10_CutoffNotCarried ==
    /\ [](renders # <<>> => renders[1].cut_off = args.cut_off)
    /\ [][args' = args]_vars

\* A later entity's first chart, after an earlier entity was given another
\* cutoff at its prompt.
C10_Witness ==
    /\ nEntities >= 2
    /\ carried
    /\ cutoffLines = <<>>
    /\ Len(renders) = 1
    /\ renders[1].cut_off = args.cut_off

====
